---- MODULE Spec2Model ----
(***************************************************************************)
(* Model of prow/pjutil/filter.go: the presubmit filters (CommandFilter,   *)
(* TestAllFilter, AggregateFilter) and FilterPresubmits, which partitions  *)
(* a list of presubmits into the ones to trigger and the ones to skip.     *)
(*                                                                         *)
(* Spec        one call of FilterPresubmits, one loop iteration per step.  *)
(* SpecFilter  the filter constructors and the evaluation of the filter    *)
(*             they built on one presubmit.                                *)
(***************************************************************************)
EXTENDS Naturals, Sequences, FiniteSets, TLC

\* Longest presubmit list handed to FilterPresubmits.
MaxJobs == 3
\* Longest child list handed to AggregateFilter.
MaxFilters == 2
\* Most evaluations of one built filter.
MaxEvals == 2

(***************************************************************************)
(* config.Presubmit, as far as this file uses it: the Name field and the   *)
(* three methods TriggerMatches, NeedsExplicitTrigger and ShouldRun.       *)
(***************************************************************************)
Names == {"foo", "bar"}
Bodies == {"/test foo", "/test bar"}
Branches == {"main", "release"}
ChangeProviders == {"changes"}
RunKinds == {"always", "conditional", "broken"}

\* The comment body the trigger of the job called n matches.
TriggerOf(n) == IF n = "foo" THEN {"/test foo"} ELSE {"/test bar"}

Presubmits ==
  { [Name |-> n, Trigger |-> TriggerOf(n), Explicit |-> e, Run |-> r] :
      n \in Names, e \in BOOLEAN, r \in RunKinds }

NoError == "nil"
ErrorOf(p) == IF p.Name = "foo" THEN "foo: run condition failed"
                                ELSE "bar: run condition failed"

TriggerMatches(p, body) == body \in p.Trigger

NeedsExplicitTrigger(p) == p.Explicit

\* (shouldRun, err) of p.ShouldRun(branch, changes, forced, defaults).
ShouldRun(p, br, ch, forced, defaults) ==
  CASE p.Run = "always"      -> [shouldRun |-> TRUE, err |-> NoError]
    [] p.Run = "conditional" -> [shouldRun |-> forced \/ defaults, err |-> NoError]
    [] p.Run = "broken"      -> IF forced
                                  THEN [shouldRun |-> TRUE, err |-> NoError]
                                  ELSE [shouldRun |-> FALSE, err |-> ErrorOf(p)]

(***************************************************************************)
(* Filters.  A Filter is a function from presubmits to the triple          *)
(* <<shouldRun, forcedToRun, defaultBehavior>>.                            *)
(***************************************************************************)
NoMatch == <<FALSE, FALSE, FALSE>>

CommandFilterUnforced(body) ==
  [p \in Presubmits |-> <<TriggerMatches(p, body), FALSE, TRUE>>]

CommandFilter(body) ==
  [p \in Presubmits |-> <<TriggerMatches(p, body), TriggerMatches(p, body), TRUE>>]

TestAllFilterInverted ==
  [p \in Presubmits |-> <<NeedsExplicitTrigger(p), FALSE, FALSE>>]

TestAllFilter ==
  [p \in Presubmits |-> <<~NeedsExplicitTrigger(p), FALSE, FALSE>>]

\* The loop of the aggregate filter, from child k on.
RECURSIVE AggregateLoop(_, _, _)
AggregateLoop(filters, presubmit, k) ==
  IF k > Len(filters)
    THEN NoMatch
    ELSE LET d == filters[k][presubmit]
         IN  IF d[1] THEN d ELSE AggregateLoop(filters, presubmit, k + 1)

\* A loop that keeps going after a match and so returns the last match.
RECURSIVE AggregateLoopLast(_, _, _)
AggregateLoopLast(filters, presubmit, k) ==
  IF k > Len(filters)
    THEN NoMatch
    ELSE LET d    == filters[k][presubmit]
             rest == AggregateLoopLast(filters, presubmit, k + 1)
         IN  IF rest[1] THEN rest ELSE IF d[1] THEN d ELSE NoMatch

AggregateFilterLastMatch(filters) ==
  [presubmit \in Presubmits |-> AggregateLoopLast(filters, presubmit, 1)]

\* An aggregate that ORs the signals of all the children that match.
AggregateFilterUnion(filters) ==
  [presubmit \in Presubmits |->
     LET hits == { k \in 1..Len(filters) : filters[k][presubmit][1] }
     IN  <<hits # {},
           \E k \in hits : filters[k][presubmit][2],
           \E k \in hits : filters[k][presubmit][3]>>]

AggregateFilter(filters) ==
  [presubmit \in Presubmits |-> AggregateLoop(filters, presubmit, 1)]

\* Two filters a caller wrote itself: any function of this type is a Filter.
ExplicitOnlyFilter == [p \in Presubmits |-> <<p.Explicit, TRUE, FALSE>>]
AlwaysRunFilter == [p \in Presubmits |-> <<p.Run = "always", p.Run # "always", TRUE>>]

\* The zero value of the Filter type.
NilFilter == <<>>

SeqsUpTo(S, n) == UNION { [1..k -> S] : k \in 0..n }

\* The filters handed to AggregateFilter as children.
ChildFilters ==
  { CommandFilter(b) : b \in Bodies } \cup {TestAllFilter, ExplicitOnlyFilter, AlwaysRunFilter}

\* The filters handed to FilterPresubmits: each child filter by itself, and
\* the aggregate of a command filter and the test-all filter in both orders.
CallFilters ==
  ChildFilters
    \cup { AggregateFilter(<<CommandFilter(b), TestAllFilter>>) : b \in Bodies }
    \cup { AggregateFilter(<<TestAllFilter, CommandFilter(b)>>) : b \in Bodies }

VARIABLES
  filter,          \* the Filter in use
  built,           \* how filter was built: [kind, body, children]
  evals,           \* the evaluations of filter so far: [job, res]
  changes,         \* FilterPresubmits: the ChangedFilesProvider argument
  branch,          \* FilterPresubmits: the branch argument
  presubmits,      \* FilterPresubmits: the presubmits argument
  idx,             \* position of the range loop in presubmits
  toTrigger, namesToTrigger, toSkip, namesToSkip,
  pc,              \* "idle", "loop", "return", "done"
  ret,             \* what FilterPresubmits returned: [toTrigger, toSkip, err]
  calls,           \* the invocations of ShouldRun so far
  logs             \* the records handed to the logger so far

vars == <<filter, built, evals, changes, branch, presubmits, idx, toTrigger,
          namesToTrigger, toSkip, namesToSkip, pc, ret, calls, logs>>

locals == <<toTrigger, namesToTrigger, toSkip, namesToSkip>>
args == <<filter, built, changes, branch, presubmits>>

Given == [kind |-> "given", body |-> "", children |-> <<>>]

(***************************************************************************)
(* FilterPresubmits                                                        *)
(***************************************************************************)
Init ==
  /\ filter \in CallFilters
  /\ built = Given
  /\ changes \in ChangeProviders
  /\ branch \in Branches
  /\ presubmits \in SeqsUpTo(Presubmits, MaxJobs)
  /\ idx = 1
  /\ toTrigger = <<>> /\ namesToTrigger = <<>>
  /\ toSkip = <<>> /\ namesToSkip = <<>>
  /\ pc = "loop"
  /\ ret = [toTrigger |-> <<>>, toSkip |-> <<>>, err |-> NoError]
  /\ evals = <<>>
  /\ calls = <<>>
  /\ logs = <<>>

InLoop == pc = "loop" /\ idx <= Len(presubmits)

Invocation(p, d) ==
  [job |-> p, branch |-> branch, changes |-> changes, forced |-> d[2], defaults |-> d[3]]

\* An unmatched presubmit is put with the skipped ones.
ContinueSkips ==
  /\ InLoop
  /\ LET presubmit == presubmits[idx]
         d == filter[presubmit]
     IN  /\ ~d[1]
         /\ evals' = Append(evals, [job |-> presubmit, res |-> d])
         /\ toSkip' = Append(toSkip, presubmit)
         /\ namesToSkip' = Append(namesToSkip, presubmit.Name)
         /\ idx' = idx + 1
  /\ UNCHANGED <<args, toTrigger, namesToTrigger, pc, ret, calls, logs>>

\* ShouldRun is invoked before the match is looked at.
ContinueInvokes ==
  /\ InLoop
  /\ LET presubmit == presubmits[idx]
         d == filter[presubmit]
     IN  /\ ~d[1]
         /\ evals' = Append(evals, [job |-> presubmit, res |-> d])
         /\ calls' = Append(calls, Invocation(presubmit, d))
         /\ idx' = idx + 1
  /\ UNCHANGED <<args, locals, pc, ret, logs>>

\* The filter does not match the presubmit: continue.
Continue ==
  /\ InLoop
  /\ LET presubmit == presubmits[idx]
         d == filter[presubmit]
     IN  /\ ~d[1]
         /\ evals' = Append(evals, [job |-> presubmit, res |-> d])
         /\ idx' = idx + 1
  /\ UNCHANGED <<args, locals, pc, ret, calls, logs>>

\* The error is returned together with what was collected so far.
AbortPartial ==
  /\ InLoop
  /\ LET presubmit == presubmits[idx]
         d == filter[presubmit]
         r == ShouldRun(presubmit, branch, changes, d[2], d[3])
     IN  /\ d[1]
         /\ r.err # NoError
         /\ evals' = Append(evals, [job |-> presubmit, res |-> d])
         /\ calls' = Append(calls, Invocation(presubmit, d))
         /\ ret' = [toTrigger |-> toTrigger, toSkip |-> toSkip, err |-> r.err]
         /\ pc' = "done"
  /\ UNCHANGED <<args, locals, idx, logs>>

\* The error is dropped and the loop goes on with the next presubmit.
AbortContinue ==
  /\ InLoop
  /\ LET presubmit == presubmits[idx]
         d == filter[presubmit]
         r == ShouldRun(presubmit, branch, changes, d[2], d[3])
     IN  /\ d[1]
         /\ r.err # NoError
         /\ evals' = Append(evals, [job |-> presubmit, res |-> d])
         /\ calls' = Append(calls, Invocation(presubmit, d))
         /\ idx' = idx + 1
  /\ UNCHANGED <<args, locals, pc, ret, logs>>

\* ShouldRun returns an error: return nil, nil, err.
Abort ==
  /\ InLoop
  /\ LET presubmit == presubmits[idx]
         d == filter[presubmit]
         r == ShouldRun(presubmit, branch, changes, d[2], d[3])
     IN  /\ d[1]
         /\ r.err # NoError
         /\ evals' = Append(evals, [job |-> presubmit, res |-> d])
         /\ calls' = Append(calls, Invocation(presubmit, d))
         /\ ret' = [toTrigger |-> <<>>, toSkip |-> <<>>, err |-> r.err]
         /\ pc' = "done"
  /\ UNCHANGED <<args, locals, idx, logs>>

\* The presubmit is put in front of toTrigger.
TriggerPrepend ==
  /\ InLoop
  /\ LET presubmit == presubmits[idx]
         d == filter[presubmit]
         r == ShouldRun(presubmit, branch, changes, d[2], d[3])
     IN  /\ d[1]
         /\ r.err = NoError
         /\ r.shouldRun
         /\ evals' = Append(evals, [job |-> presubmit, res |-> d])
         /\ calls' = Append(calls, Invocation(presubmit, d))
         /\ toTrigger' = <<presubmit>> \o toTrigger
         /\ namesToTrigger' = <<presubmit.Name>> \o namesToTrigger
         /\ idx' = idx + 1
  /\ UNCHANGED <<args, toSkip, namesToSkip, pc, ret, logs>>

\* ShouldRun returns true: append to toTrigger.
Trigger ==
  /\ InLoop
  /\ LET presubmit == presubmits[idx]
         d == filter[presubmit]
         r == ShouldRun(presubmit, branch, changes, d[2], d[3])
     IN  /\ d[1]
         /\ r.err = NoError
         /\ r.shouldRun
         /\ evals' = Append(evals, [job |-> presubmit, res |-> d])
         /\ calls' = Append(calls, Invocation(presubmit, d))
         /\ toTrigger' = Append(toTrigger, presubmit)
         /\ namesToTrigger' = Append(namesToTrigger, presubmit.Name)
         /\ idx' = idx + 1
  /\ UNCHANGED <<args, toSkip, namesToSkip, pc, ret, logs>>

\* ShouldRun returns false: append to toSkip.
Skip ==
  /\ InLoop
  /\ LET presubmit == presubmits[idx]
         d == filter[presubmit]
         r == ShouldRun(presubmit, branch, changes, d[2], d[3])
     IN  /\ d[1]
         /\ r.err = NoError
         /\ ~r.shouldRun
         /\ evals' = Append(evals, [job |-> presubmit, res |-> d])
         /\ calls' = Append(calls, Invocation(presubmit, d))
         /\ toSkip' = Append(toSkip, presubmit)
         /\ namesToSkip' = Append(namesToSkip, presubmit.Name)
         /\ idx' = idx + 1
  /\ UNCHANGED <<args, toTrigger, namesToTrigger, pc, ret, logs>>

\* The record counts the matched presubmits instead of all of them.
LogSummaryMatched ==
  /\ pc = "loop"
  /\ idx > Len(presubmits)
  /\ logs' = Append(logs, [toTrigger |-> namesToTrigger, toSkip |-> namesToSkip,
                           total |-> Len(toTrigger) + Len(toSkip),
                           trigger |-> Len(toTrigger), skip |-> Len(toSkip)])
  /\ pc' = "return"
  /\ UNCHANGED <<args, locals, idx, ret, evals, calls>>

\* The loop is over: the Debugf call.
LogSummary ==
  /\ pc = "loop"
  /\ idx > Len(presubmits)
  /\ logs' = Append(logs, [toTrigger |-> namesToTrigger, toSkip |-> namesToSkip,
                           total |-> Len(presubmits),
                           trigger |-> Len(toTrigger), skip |-> Len(toSkip)])
  /\ pc' = "return"
  /\ UNCHANGED <<args, locals, idx, ret, evals, calls>>

\* return toTrigger, toSkip, nil
Return ==
  /\ pc = "return"
  /\ ret' = [toTrigger |-> toTrigger, toSkip |-> toSkip, err |-> NoError]
  /\ pc' = "done"
  /\ UNCHANGED <<args, locals, idx, evals, calls, logs>>

Next == Continue \/ Abort \/ Trigger \/ Skip \/ LogSummary \/ Return

Spec == Init /\ [][Next]_vars

(***************************************************************************)
(* The filter constructors, and the evaluation of the filter they built.   *)
(***************************************************************************)
InitFilter ==
  /\ filter = NilFilter
  /\ built = [kind |-> "none", body |-> "", children |-> <<>>]
  /\ changes = "changes"
  /\ branch = "main"
  /\ presubmits = <<>>
  /\ idx = 1
  /\ toTrigger = <<>> /\ namesToTrigger = <<>>
  /\ toSkip = <<>> /\ namesToSkip = <<>>
  /\ pc = "idle"
  /\ ret = [toTrigger |-> <<>>, toSkip |-> <<>>, err |-> NoError]
  /\ evals = <<>>
  /\ calls = <<>>
  /\ logs = <<>>

call == <<changes, branch, presubmits, idx, locals, pc, ret, calls, logs>>

BuildCommandFilter ==
  /\ pc = "idle"
  /\ built.kind = "none"
  /\ \E body \in Bodies :
       /\ filter' = CommandFilter(body)
       /\ built' = [kind |-> "command", body |-> body, children |-> <<>>]
  /\ evals' = <<>>
  /\ UNCHANGED call

BuildTestAllFilter ==
  /\ pc = "idle"
  /\ built.kind = "none"
  /\ filter' = TestAllFilter
  /\ built' = [kind |-> "testall", body |-> "", children |-> <<>>]
  /\ evals' = <<>>
  /\ UNCHANGED call

BuildAggregateFilter ==
  /\ pc = "idle"
  /\ built.kind = "none"
  /\ \E filters \in SeqsUpTo(ChildFilters, MaxFilters) :
       /\ filter' = AggregateFilter(filters)
       /\ built' = [kind |-> "aggregate", body |-> "", children |-> filters]
  /\ evals' = <<>>
  /\ UNCHANGED call

\* The built filter is applied to a presubmit.
Evaluate ==
  /\ pc = "idle"
  /\ built.kind # "none"
  /\ Len(evals) < MaxEvals
  /\ \E p \in Presubmits :
       evals' = Append(evals, [job |-> p, res |-> filter[p]])
  /\ UNCHANGED <<filter, built, call>>

NextFilter ==
  BuildCommandFilter \/ BuildTestAllFilter \/ BuildAggregateFilter \/ Evaluate

SpecFilter == InitFilter /\ [][NextFilter]_vars

(***************************************************************************)
(* Properties of the filters (SpecFilter)                                  *)
(***************************************************************************)
Evaluated(kind) == built.kind = kind /\ evals # <<>>

\* C1: the command filter built from a body matches a job exactly when the
\* job's trigger matches the body, forces exactly the jobs it matches, and
\* whenever it matches both forced and defaultBehavior are true.
C1_CommandFilter ==
  built.kind = "command" =>
    \A n \in 1..Len(evals) :
      LET e == evals[n]
      IN  /\ e.res[1] = TriggerMatches(e.job, built.body)
          /\ e.res[2] = e.res[1]
          /\ e.res[1] => (e.res[2] /\ e.res[3])

C1_Witness ==
  /\ Evaluated("command")
  /\ evals[1].res[1]
  /\ \E b \in Bodies : ~TriggerMatches(evals[1].job, b)

\* C2: the test-all filter matches a job exactly when the job does not need
\* an explicit trigger, and never forces nor asks for the default behaviour.
C2_TestAllFilter ==
  built.kind = "testall" =>
    \A n \in 1..Len(evals) :
      evals[n].res = <<~NeedsExplicitTrigger(evals[n].job), FALSE, FALSE>>

C2_Witness ==
  /\ Evaluated("testall")
  /\ Len(evals) = 2
  /\ evals[1].res[1]
  /\ ~evals[2].res[1]

\* The children of the built aggregate that match job p, by position.
MatchingChildren(p) ==
  { k \in 1..Len(built.children) : built.children[k][p][1] }

FirstOf(S) == CHOOSE k \in S : \A m \in S : k <= m

\* C3: the aggregate filter returns the result of the first child, in list
\* order, that matches the job, whatever the children after it return, and
\* (false, false, false) when no child matches or the list is empty.
C3_AggregateFirstMatch ==
  built.kind = "aggregate" =>
    \A n \in 1..Len(evals) :
      LET p == evals[n].job
      IN  IF MatchingChildren(p) = {}
            THEN evals[n].res = <<FALSE, FALSE, FALSE>>
            ELSE evals[n].res = built.children[FirstOf(MatchingChildren(p))][p]

C3_Witness ==
  /\ Evaluated("aggregate")
  /\ LET p == evals[1].job
     IN  /\ Cardinality(MatchingChildren(p)) = 2
         /\ built.children[1][p] # built.children[2][p]
  /\ Len(evals) = 2
  /\ MatchingChildren(evals[2].job) = {}
  /\ \E k \in 1..Len(built.children) : built.children[k][evals[2].job] # NoMatch

\* The child list of the built aggregate, reordered by the permutation f.
Reordered(f) == [k \in 1..Len(built.children) |-> built.children[f[k]]]

\* C9: reordering the children of an aggregate never changes whether a job
\* matches (it does when some child matches it), but it changes the forced
\* and defaultBehavior signals: on a job whose trigger matches the body and
\* that needs no explicit trigger, command-then-test-all gives
\* (true, true, true) and test-all-then-command gives (true, false, false).
C9_AggregateOrder ==
  built.kind = "aggregate" =>
    \A n \in 1..Len(evals) :
      LET p == evals[n].job
          res == evals[n].res
      IN  /\ res[1] = (MatchingChildren(p) # {})
          /\ \A f \in Permutations(1..Len(built.children)) :
               AggregateFilter(Reordered(f))[p][1] = res[1]
          /\ \A b \in Bodies :
               (TriggerMatches(p, b) /\ ~NeedsExplicitTrigger(p)) =>
                 /\ built.children = <<CommandFilter(b), TestAllFilter>>
                      => res = <<TRUE, TRUE, TRUE>>
                 /\ built.children = <<TestAllFilter, CommandFilter(b)>>
                      => res = <<TRUE, FALSE, FALSE>>

C9_Witness ==
  /\ Evaluated("aggregate")
  /\ \E b \in Bodies :
       /\ built.children = <<TestAllFilter, CommandFilter(b)>>
       /\ TriggerMatches(evals[1].job, b)
  /\ evals[1].res = <<TRUE, FALSE, FALSE>>
  /\ AggregateFilter(Reordered(<<2, 1>>))[evals[1].job] = <<TRUE, TRUE, TRUE>>

(***************************************************************************)
(* Properties of FilterPresubmits (Spec)                                   *)
(***************************************************************************)
Positions == 1..Len(presubmits)

\* What the filter and ShouldRun answer for the job at position i.
Matched(i) == filter[presubmits[i]][1]
Outcome(i) ==
  LET d == filter[presubmits[i]]
  IN  ShouldRun(presubmits[i], branch, changes, d[2], d[3])
Errors(i) == Matched(i) /\ Outcome(i).err # NoError

Succeeded == pc = "done" /\ ret.err = NoError
Aborted == pc = "done" /\ ret.err # NoError

InSeq(x, s) == \E k \in 1..Len(s) : s[k] = x

\* s is made of elements of t, in the order they have in t.
IsSubsequence(s, t) ==
  \E f \in [1..Len(s) -> 1..Len(t)] :
    /\ \A a, b \in 1..Len(s) : a < b => f[a] < f[b]
    /\ \A a \in 1..Len(s) : s[a] = t[f[a]]

\* C4: after a call that returns no error, a job the filter does not match
\* is in neither result, a matched job ShouldRun accepted is in toTrigger
\* only, a matched job ShouldRun declined is in toSkip only, and the two
\* results together are as long as the number of matched jobs.
C4_Partition ==
  Succeeded =>
    /\ \A i \in Positions :
         LET p == presubmits[i]
         IN  /\ ~Matched(i) =>
                  ~InSeq(p, ret.toTrigger) /\ ~InSeq(p, ret.toSkip)
             /\ (Matched(i) /\ Outcome(i).shouldRun) =>
                  InSeq(p, ret.toTrigger) /\ ~InSeq(p, ret.toSkip)
             /\ (Matched(i) /\ ~Outcome(i).shouldRun) =>
                  InSeq(p, ret.toSkip) /\ ~InSeq(p, ret.toTrigger)
    /\ Len(ret.toTrigger) + Len(ret.toSkip)
         = Cardinality({ i \in Positions : Matched(i) })

C4_Witness ==
  /\ Succeeded
  /\ \E i \in Positions : ~Matched(i)
  /\ \E i \in Positions : Matched(i) /\ Outcome(i).shouldRun
  /\ \E i \in Positions : Matched(i) /\ ~Outcome(i).shouldRun

\* The jobs the loop has been through.
Processed == SubSeq(presubmits, 1, Len(evals))

OnlyAppended(s, t) == t = s \/ \E p \in Presubmits : t = Append(s, p)

\* C5: after every iteration and at return, toTrigger and toSkip are
\* subsequences of the jobs processed so far, so jobs keep the order they
\* have in the input; a step either leaves a result alone or appends to it.
C5_StablePartition ==
  /\ [](/\ IsSubsequence(toTrigger, Processed)
        /\ IsSubsequence(toSkip, Processed)
        /\ IsSubsequence(ret.toTrigger, presubmits)
        /\ IsSubsequence(ret.toSkip, presubmits)
        /\ Succeeded => ret.toTrigger = toTrigger /\ ret.toSkip = toSkip)
  /\ [][/\ OnlyAppended(toTrigger, toTrigger')
        /\ OnlyAppended(toSkip, toSkip')]_vars

C5_Witness ==
  /\ Succeeded
  /\ Len(ret.toTrigger) = 2
  /\ ret.toTrigger[1] # ret.toTrigger[2]
  /\ Len(ret.toSkip) = 1
  /\ presubmits[2] = ret.toSkip[1]

\* C6: if ShouldRun fails for a job the filter matches, the call returns
\* an error and two empty results, also when jobs had been appended to
\* toTrigger or toSkip before; an error never comes with a partial result.
C6_ErrorDiscardsResults ==
  pc = "done" =>
    /\ (\E i \in Positions : Errors(i)) => ret.err # NoError
    /\ ret.err # NoError => ret.toTrigger = <<>> /\ ret.toSkip = <<>>

C6_Witness ==
  /\ Aborted
  /\ toTrigger # <<>>
  /\ toSkip # <<>>

FirstError == FirstOf({ i \in Positions : Errors(i) })

\* C7: the error returned is the one of the first job, in input order,
\* that the filter matches and whose ShouldRun fails; that job is the last
\* one the filter and ShouldRun were evaluated for.
C7_FailFast ==
  (pc = "done" /\ \E i \in Positions : Errors(i)) =>
    /\ ret.err = Outcome(FirstError).err
    /\ Len(evals) = FirstError
    /\ evals[Len(evals)].job = presubmits[FirstError]
    /\ calls # <<>>
    /\ calls[Len(calls)].job = presubmits[FirstError]
    /\ Len(calls) = Cardinality({ i \in 1..FirstError : Matched(i) })

C7_Witness ==
  /\ Aborted
  /\ Len(presubmits) = 3
  /\ FirstError = 2
  /\ Errors(3)
  /\ Outcome(3).err # Outcome(2).err

\* The matched positions among the first m, in input order.
RECURSIVE MatchedUpTo(_)
MatchedUpTo(m) ==
  IF m = 0 THEN <<>>
  ELSE IF Matched(m) THEN Append(MatchedUpTo(m - 1), m) ELSE MatchedUpTo(m - 1)

\* C8: the filter is evaluated once per job in input order, and the
\* invocations of ShouldRun are exactly the matched jobs among those, in
\* input order, each with the branch and change provider of the call and
\* the forced and defaultBehavior values the filter returned for that job;
\* ShouldRun is never invoked for an unmatched job.
C8_ShouldRunCalls ==
  LET at == MatchedUpTo(Len(evals))
  IN  /\ Len(evals) <= Len(presubmits)
      /\ \A n \in 1..Len(evals) :
           evals[n] = [job |-> presubmits[n], res |-> filter[presubmits[n]]]
      /\ Len(calls) = Len(at)
      /\ \A n \in 1..Len(at) :
           calls[n] = [job |-> presubmits[at[n]],
                       branch |-> branch,
                       changes |-> changes,
                       forced |-> filter[presubmits[at[n]]][2],
                       defaults |-> filter[presubmits[at[n]]][3]]

C8_Witness ==
  /\ Succeeded
  /\ Len(calls) = 2
  /\ calls[1].forced # calls[2].forced
  /\ \E i \in Positions : ~Matched(i) /\ Outcome(i).err # NoError

\* C10: a call that succeeds hands the logger one record, after the last
\* job and before returning: the number of input jobs, the lengths of the
\* two results and, position by position, the names of their jobs.  A call
\* that aborts logs nothing, and logging changes neither result.
C10_Summary ==
  /\ [](/\ pc = "loop" => logs = <<>>
        /\ Aborted => logs = <<>>
        /\ logs # <<>> => Len(evals) = Len(presubmits)
        /\ pc = "return" => Len(logs) = 1
        /\ Succeeded =>
             /\ Len(logs) = 1
             /\ logs[1].total = Len(presubmits)
             /\ logs[1].trigger = Len(ret.toTrigger)
             /\ logs[1].skip = Len(ret.toSkip)
             /\ logs[1].toTrigger = [n \in 1..Len(ret.toTrigger) |-> ret.toTrigger[n].Name]
             /\ logs[1].toSkip = [n \in 1..Len(ret.toSkip) |-> ret.toSkip[n].Name])
  /\ [][logs' # logs => UNCHANGED <<toTrigger, toSkip, ret>>]_vars

C10_Witness ==
  /\ Succeeded
  /\ logs[1].total = 3
  /\ logs[1].trigger = 1
  /\ logs[1].skip = 1
  /\ logs[1].toTrigger # logs[1].toSkip

====
